---- MODULE Spec2Model ----
(***************************************************************************)
(* A model of muddled/utils.py: domain-name parsing (split_domain,         *)
(* domain_subpath), build-tree location (find_root, find_location_in_tree, *)
(* find_local_packages), content hashing (HashFile, calc_file_hash) and    *)
(* running commands (run_cmd, get_cmd_data, ensure_dir); of the apt-get    *)
(* package builder of muddled/pkgs/aptget.py; of the Bazaar handler of     *)
(* muddled/vcs/bazaar.py; and of the build run over a Ruleset.             *)
(*                                                                         *)
(* A Python string is a sequence of one-character strings; a path that the *)
(* code handles with os.path is a record [abs, segs] of its segments.      *)
(***************************************************************************)

EXTENDS Integers, Sequences, FiniteSets, TLC

VARIABLES
    domain_name,    \* the argument of split_domain / domain_subpath
    ids_in,         \* the identifiers domain_name was composed from; <<>> for a free string
    dom_call,       \* which function was called last: "none", "split_domain", "domain_subpath"
    dom_ret         \* what that call returned or raised

VARIABLES
    fs_muddle,      \* the directories that hold a .muddle directory
    fs_sub,         \* directory -> the name stored in its .muddle/am_subdomain file
    cwd,            \* the working directory of the process
    root_ret        \* what the last call returned or raised: a find_root result with
                    \* its argument, or nothing after mark_as_domain

VARIABLES
    loc_dir,        \* the argument dir of find_location_in_tree / find_local_packages
    loc_root,       \* their argument root
    loc_inv,        \* their argument invocation: the checkout index, or None
    loc_call,       \* which of the two was called last, or "none"
    loc_ret         \* what that call returned, or that it never returns

VARIABLES
    hf_content,     \* the content of the file that is read
    hf_w,           \* a HashFile opened 'w' on a new file
    hf_r,           \* a HashFile opened 'r' on the file holding hf_content
    calc_ret        \* what calc_file_hash returned for that file, if called

VARIABLES
    hu_file,        \* the content of the file a HashFile is constructed on
    hu_mode,        \* the mode the constructor was called with
    hu,             \* that HashFile, once constructed
    hu_opened,      \* whether the constructor has opened the file
    hu_op,          \* the method called last, "none" before the construction
    hu_raised,      \* what that call raised, "no" if it returned
    hu_prev,        \* the HashFile as it was before that call
    hu_texts,       \* the texts returned by readline/next or accepted by write, joined
    hu_hash         \* what the last call of hash() returned

VARIABLES
    apt_pkgs,       \* self.pkgs_to_install of an AptGetBuilder
    apt_db,         \* the host's package database: package -> its status abbreviation
    apt_tag,        \* label.tag of the label build_label is called for
    apt_rv,         \* the exit status the host installer would give
    apt_call,       \* "build_label" once it was called, "none" before
    apt_ret         \* what that call did: the status queries, the installs, the exception

VARIABLES
    cmd_cmd,        \* the argument cmd of run_cmd / get_cmd_data
    cmd_flags,      \* their keyword arguments allowFailure, isSystem, fold_stderr, fail_nonzero
    cmd_exit,       \* what the command does: its exit code, what it writes to stdout and stderr
    cmd_call,       \* which of the two was called last, or "none"
    cmd_ret         \* what that call returned or raised

VARIABLES
    bzr_rev,        \* handler -> the revision it is bound to
    bzr_fs,         \* directory name -> what is there: "dir", "file" or "absent"
    bzr_cwd,        \* the working directory of the process
    bzr_updated,    \* handler -> whether its update() has been called
    bzr_op          \* the last operation of a handler: what it ran, where, how it ended

VARIABLES
    bld_rules,      \* the Ruleset: label -> the prerequisite labels of its Rule
    bld_targets,    \* the labels a build run was asked for
    bld_status,     \* "new", "running", or "cycle" when the order computation failed
    bld_done,       \* the labels whose tag is recorded as reached
    bld_running,    \* the labels whose Builder is at work
    bld_failed,     \* the labels whose Builder failed in this run
    bld_count,      \* label -> how often its Builder was invoked in this run
    bld_early       \* the labels whose Builder was invoked before a prerequisite was done

dom_vars == <<domain_name, ids_in, dom_call, dom_ret>>
root_vars == <<fs_muddle, fs_sub, cwd, root_ret>>
loc_vars == <<loc_dir, loc_root, loc_inv, loc_call, loc_ret>>
hash_vars == <<hf_content, hf_w, hf_r, calc_ret>>
use_vars == <<hu_file, hu_mode, hu, hu_opened, hu_op, hu_raised, hu_prev, hu_texts, hu_hash>>
apt_vars == <<apt_pkgs, apt_db, apt_tag, apt_rv, apt_call, apt_ret>>
cmd_vars == <<cmd_cmd, cmd_flags, cmd_exit, cmd_call, cmd_ret>>
bzr_vars == <<bzr_rev, bzr_fs, bzr_cwd, bzr_updated, bzr_op>>
bld_vars == <<bld_rules, bld_targets, bld_status, bld_done, bld_running, bld_failed, bld_count, bld_early>>

vars == <<dom_vars, root_vars, loc_vars, hash_vars, use_vars, apt_vars, cmd_vars,
         bzr_vars,
         bld_vars>>

\* what the functions of one group leave alone
not_dom == <<root_vars, loc_vars, hash_vars, use_vars, apt_vars, cmd_vars,
    bzr_vars,
    bld_vars>>
not_root == <<dom_vars, loc_vars, hash_vars, use_vars, apt_vars, cmd_vars,
    bzr_vars,
    bld_vars>>
not_loc == <<dom_vars, root_vars, hash_vars, use_vars, apt_vars, cmd_vars,
    bzr_vars,
    bld_vars>>
not_hash == <<dom_vars, root_vars, loc_vars, use_vars, apt_vars, cmd_vars,
    bzr_vars,
    bld_vars>>
not_use == <<dom_vars, root_vars, loc_vars, hash_vars, apt_vars, cmd_vars,
    bzr_vars,
    bld_vars>>
not_apt == <<dom_vars, root_vars, loc_vars, hash_vars, use_vars, cmd_vars,
    bzr_vars,
    bld_vars>>
not_cmd == <<dom_vars, root_vars, loc_vars, hash_vars, use_vars, apt_vars,
    bzr_vars,
    bld_vars>>
not_bzr == <<dom_vars, root_vars, loc_vars, hash_vars, use_vars, apt_vars, cmd_vars,
    bld_vars>>
not_bld == <<dom_vars, root_vars, loc_vars, hash_vars, use_vars, apt_vars, cmd_vars, bzr_vars>>

----------------------------------------------------------------------------
(* Bounds *)

MaxLen == 6         \* longest free domain string
MaxDepth == 3       \* deepest composed domain name id1(id2(id3))
MaxIdLen == 1       \* longest identifier of a composed domain name
MaxPath == 4        \* deepest directory of the modelled file system
MaxMarks == 2       \* most directories marked as subdomains
MaxRest == 3        \* most segments of dir below root
MaxContent == 5     \* longest file content
MaxPkgs == 3        \* most packages an AptGetBuilder is configured with
MaxLabels == 3      \* most labels of a Ruleset
MaxWorkers == 2     \* most Builders at work at a time

----------------------------------------------------------------------------
(* Python string primitives *)

Chars == {"a", "b", "/", "(", ")"}
IdChars == {"a", "b", "/"}

StringsUpTo(alphabet, n) == UNION {[1..k -> alphabet] : k \in 0..n}

\* c in s
Contains(s, c) == \E i \in 1..Len(s) : s[i] = c

\* t in s, for a substring t
ContainsSub(s, t) ==
    \E i \in 1..(Len(s) - Len(t) + 1) : SubSeq(s, i, i + Len(t) - 1) = t

\* n * c
Repeat(c, n) == [i \in 1..n |-> c]

\* s.endswith(t)
EndsWith(s, t) ==
    /\ Len(t) <= Len(s)
    /\ SubSeq(s, Len(s) - Len(t) + 1, Len(s)) = t

\* s.startswith(t)
StartsWith(s, t) ==
    /\ Len(t) <= Len(s)
    /\ SubSeq(s, 1, Len(t)) = t

\* s.split(c): the pieces of s between the occurrences of c
RECURSIVE SplitOn(_, _)
SplitOn(s, c) ==
    IF ~Contains(s, c) THEN <<s>>
    ELSE LET i == CHOOSE k \in 1..Len(s) :
                      s[k] = c /\ \A j \in 1..(k - 1) : s[j] # c
         IN  <<SubSeq(s, 1, i - 1)>> \o SplitOn(SubSeq(s, i + 1, Len(s)), c)

\* posixpath.join(a, *p), folded over the list of components
RECURSIVE JoinFrom(_, _)
JoinFrom(path, rest) ==
    IF rest = <<>> THEN path
    ELSE LET b == Head(rest)
             next == IF StartsWith(b, <<"/">>) THEN b
                     ELSE IF path = <<>> \/ EndsWith(path, <<"/">>) THEN path \o b
                     ELSE path \o <<"/">> \o b
         IN  JoinFrom(next, Tail(rest))

os_path_join(parts) == JoinFrom(Head(parts), Tail(parts))

----------------------------------------------------------------------------
(* split_domain and domain_subpath *)

NoRet == [kind |-> "none", parts |-> <<>>, path |-> <<>>, msg |-> "", name |-> <<>>]
Parts(p) == [kind |-> "value", parts |-> p, path |-> <<>>, msg |-> "", name |-> <<>>]
Path(p) == [kind |-> "value", parts |-> <<>>, path |-> p, msg |-> "", name |-> <<>>]
Failure(m, s) == [kind |-> "Failure", parts |-> <<>>, path |-> <<>>, msg |-> m, name |-> s]

Sibling == "has 'sibling' sub-domains"
MisMatched == "has mis-matched parentheses"

\* split_domain with the last segment left as it was split: the closing
\* parentheses are checked but never stripped
split_domain_unstripped(name) ==
    IF ~Contains(name, "(") THEN Parts(<<name>>)
    ELSE IF ContainsSub(name, <<")", "(">>) THEN Failure(Sibling, name)
    ELSE LET parts == SplitOn(name, "(")
         IN  IF ~EndsWith(parts[Len(parts)], Repeat(")", Len(parts) - 1))
             THEN Failure(MisMatched, name)
             ELSE Parts(parts)

\* split_domain with its two checks in the other order
split_domain_mismatch_first(name) ==
    IF ~Contains(name, "(") THEN Parts(<<name>>)
    ELSE LET parts == SplitOn(name, "(")
             num_closing == Len(parts) - 1
             last == parts[Len(parts)]
         IN  IF ~EndsWith(last, Repeat(")", num_closing))
             THEN Failure(MisMatched, name)
             ELSE IF ContainsSub(name, <<")", "(">>) THEN Failure(Sibling, name)
             ELSE Parts([parts EXCEPT
                     ![Len(parts)] = SubSeq(last, 1, Len(last) - num_closing)])

split_domain(name) ==
    IF ~Contains(name, "(") THEN Parts(<<name>>)
    ELSE IF ContainsSub(name, <<")", "(">>) THEN Failure(Sibling, name)
    ELSE LET parts == SplitOn(name, "(")
             num_closing == Len(parts) - 1
             last == parts[Len(parts)]
         IN  IF ~EndsWith(last, Repeat(")", num_closing))
             THEN Failure(MisMatched, name)
             ELSE Parts([parts EXCEPT
                     ![Len(parts)] = SubSeq(last, 1, Len(last) - num_closing)])

\* the list built with the two appends the other way round
RECURSIVE DomainsPartsSwapped(_)
DomainsPartsSwapped(things) ==
    IF things = <<>> THEN <<>>
    ELSE <<Head(things), <<"d", "o", "m", "a", "i", "n", "s">>>>
             \o DomainsPartsSwapped(Tail(things))

\* the list ['domains', t1, 'domains', t2, ...]
RECURSIVE DomainsParts(_)
DomainsParts(things) ==
    IF things = <<>> THEN <<>>
    ELSE <<<<"d", "o", "m", "a", "i", "n", "s">>, Head(things)>> \o DomainsParts(Tail(things))

domain_subpath(name) ==
    LET sd == split_domain(name)
    IN  IF sd.kind = "Failure" THEN sd
        ELSE Path(os_path_join(DomainsParts(sd.parts)))

----------------------------------------------------------------------------
(* The domain-name functions applied to bounded inputs *)

Idents == StringsUpTo(IdChars, MaxIdLen)
IdSeqs == UNION {[1..n -> Idents] : n \in 1..MaxDepth}

\* id1(id2(...idN...)) followed by its N-1 closing parentheses
RECURSIVE Nest(_)
Nest(ids) ==
    IF Len(ids) = 1 THEN ids[1]
    ELSE ids[1] \o <<"(">> \o Nest(Tail(ids)) \o <<")">>

DomIdle ==
    /\ domain_name = <<>>
    /\ ids_in = <<>>
    /\ dom_call = "none"
    /\ dom_ret = NoRet

DomInit ==
    /\ \/ /\ ids_in = <<>>
          /\ domain_name \in StringsUpTo(Chars, MaxLen)
       \/ /\ ids_in \in IdSeqs
          /\ domain_name = Nest(ids_in)
    /\ dom_call = "none"
    /\ dom_ret = NoRet

SplitDomain ==
    /\ dom_call' = "split_domain"
    /\ dom_ret' = split_domain(domain_name)
    /\ UNCHANGED <<domain_name, ids_in, not_dom>>

DomainSubpath ==
    /\ dom_call' = "domain_subpath"
    /\ dom_ret' = domain_subpath(domain_name)
    /\ UNCHANGED <<domain_name, ids_in, not_dom>>

DomNext == SplitDomain \/ DomainSubpath

----------------------------------------------------------------------------
(* Paths: os.path on the segments of a path *)

\* "/" is [abs |-> TRUE, segs |-> <<>>], "" is [abs |-> FALSE, segs |-> <<>>],
\* "." is [abs |-> FALSE, segs |-> <<".">>]
AbsPath(segs) == [abs |-> TRUE, segs |-> segs]
RelPath(segs) == [abs |-> FALSE, segs |-> segs]

Front(s) == SubSeq(s, 1, Len(s) - 1)
Last(s) == s[Len(s)]

\* the segments left by os.path.normpath: '.' dropped, 'x/..' collapsed, a
\* leading '..' dropped below '/' and kept in a relative path
RECURSIVE NormSegs(_, _, _)
NormSegs(abs, done, todo) ==
    IF todo = <<>> THEN done
    ELSE LET s == Head(todo)
         IN  IF s = "." THEN NormSegs(abs, done, Tail(todo))
             ELSE IF s # ".." THEN NormSegs(abs, Append(done, s), Tail(todo))
             ELSE IF done # <<>> /\ Last(done) # ".."
                  THEN NormSegs(abs, Front(done), Tail(todo))
             ELSE IF abs THEN NormSegs(abs, done, Tail(todo))
             ELSE NormSegs(abs, Append(done, s), Tail(todo))

\* os.path.normcase(os.path.normpath(p)); normcase changes nothing on posix
normpath(p) ==
    LET segs == NormSegs(p.abs, <<>>, p.segs)
    IN  IF ~p.abs /\ segs = <<>> THEN RelPath(<<".">>)
        ELSE [abs |-> p.abs, segs |-> segs]

\* os.path.split(p): the pair (head, tail); tail is "" when p has no segment
path_split(p) ==
    IF p.segs = <<>> THEN [head |-> p, tail |-> ""]
    ELSE [head |-> [abs |-> p.abs, segs |-> Front(p.segs)], tail |-> Last(p.segs)]

\* the directory the kernel reaches for path p from the working directory wd
Resolve(wd, p) ==
    IF p.abs THEN NormSegs(TRUE, <<>>, p.segs)
    ELSE NormSegs(TRUE, <<>>, wd \o p.segs)

----------------------------------------------------------------------------
(* mark_as_domain, is_subdomain, get_domain_name_from, find_root *)

NoFile == "<no file>"

\* os.path.exists(os.path.join(dir, ".muddle"))
has_muddle(muddle, wd, dir) == Resolve(wd, dir) \in muddle

\* is_subdomain(dir): .muddle/am_subdomain exists
is_subdomain(sub, wd, dir) == Resolve(wd, dir) \in DOMAIN sub

\* get_domain_name_from reading the name that mark_as_domain stored
get_domain_name_from_file(dir) ==
    [ok |-> TRUE, name |-> fs_sub[Resolve(cwd, dir)]]

\* get_domain_name_from(dir): the last segment of the path as given, which
\* must follow a segment 'domains'; otherwise Error
get_domain_name_from(dir) ==
    LET first == path_split(dir)
        second == path_split(first.head)
    IN  IF second.tail = "domains"
        THEN [ok |-> TRUE, name |-> first.tail]
        ELSE [ok |-> FALSE, name |-> second.tail]

NoDomain == [set |-> FALSE, name |-> <<>>]
ADomain(tokens) == [set |-> TRUE, name |-> tokens]

\* "%s(%s)"%(new_domain, current_domain), or new_domain alone the first time
Compose(new_domain, current_domain) ==
    IF ~current_domain.set THEN ADomain(<<new_domain>>)
    ELSE ADomain(<<new_domain, "(">> \o current_domain.name \o <<")">>)

NoRootRet ==
    [kind |-> "none", start |-> RelPath(<<>>), found |-> FALSE,
     dir |-> RelPath(<<>>), domain |-> NoDomain]
RootFound(start, dir, domain) ==
    [kind |-> "value", start |-> start, found |-> TRUE, dir |-> dir, domain |-> domain]
RootNotFound(start) ==
    [kind |-> "value", start |-> start, found |-> FALSE,
     dir |-> RelPath(<<>>), domain |-> NoDomain]
RootError(start, dir) ==
    [kind |-> "Error", start |-> start, found |-> FALSE, dir |-> dir, domain |-> NoDomain]

\* the while loop of find_root, from directory dir with current_domain so far
RECURSIVE Climb(_, _, _, _, _, _)
Climb(muddle, sub, wd, start, dir, current_domain) ==
    LET here == has_muddle(muddle, wd, dir)
        isSub == here /\ is_subdomain(sub, wd, dir)
        new_domain == get_domain_name_from(dir)
        up1 == path_split(dir).head
        domain == IF isSub THEN Compose(new_domain.name, current_domain)
                  ELSE current_domain
    IN  IF here /\ ~isSub THEN RootFound(start, dir, current_domain)
        ELSE IF isSub /\ ~new_domain.ok THEN RootError(start, dir)
        ELSE IF up1 = dir \/ dir = AbsPath(<<>>) THEN RootNotFound(start)
        ELSE Climb(muddle, sub, wd, start, up1, domain)

find_root(muddle, sub, wd, dir) ==
    Climb(muddle, sub, wd, dir, normpath(dir), NoDomain)

----------------------------------------------------------------------------
(* find_root applied to bounded file systems *)

Names == {"a", "b"}
Segs == {"domains", "src"} \cup Names

\* the directories of a build tree: <root>(/domains/<name>)* with an optional
\* src or domains below
TreeShaped(p) ==
    \A i \in 1..Len(p) :
        IF i % 2 = 1
        THEN p[i] = "domains" \/ (i = Len(p) /\ p[i] = "src")
        ELSE p[i] \in Names /\ p[i - 1] = "domains"

Dirs == {p \in UNION {[1..n -> Segs] : n \in 0..MaxPath} : TreeShaped(p)}

Prefixes(p) == {SubSeq(p, 1, n) : n \in 0..Len(p)}

\* the relative paths find_root is started with: "", "..", "../..", "domains/a"
RelStarts == {<<>>, <<"..">>, <<"..", "..">>, <<"domains", "a">>}

EmptyMap == [d \in {} |-> NoFile]

RootIdle ==
    /\ fs_muddle = {}
    /\ fs_sub = EmptyMap
    /\ cwd = <<>>
    /\ root_ret = NoRootRet

\* some build trees along one branch of the file system, none yet marked as a
\* subdomain, and the process somewhere on that branch
RootInit ==
    /\ \E leaf \in Dirs :
           /\ fs_muddle \in SUBSET Prefixes(leaf)
           /\ cwd \in Prefixes(leaf)
    /\ fs_sub = EmptyMap
    /\ root_ret = NoRootRet

\* mark_as_domain(dir, domain_name): writes the name to dir/.muddle/am_subdomain
MarkAsDomain(dir, name) ==
    /\ dir \in fs_muddle
    /\ dir \in DOMAIN fs_sub \/ Cardinality(DOMAIN fs_sub) < MaxMarks
    /\ fs_sub' = [d \in DOMAIN fs_sub \cup {dir} |-> IF d = dir THEN name ELSE fs_sub[d]]
    /\ root_ret' = NoRootRet
    /\ UNCHANGED <<fs_muddle, cwd, not_root>>

FindRoot(start) ==
    /\ root_ret' = find_root(fs_muddle, fs_sub, cwd, start)
    /\ UNCHANGED <<fs_muddle, fs_sub, cwd, not_root>>

MarkSome == \E dir \in fs_muddle, name \in Names : MarkAsDomain(dir, name)
FindRootAbs == FindRoot(AbsPath(cwd))
FindRootRel == \E segs \in RelStarts : FindRoot(RelPath(segs))

RootNext == MarkSome \/ FindRootAbs \/ FindRootRel

----------------------------------------------------------------------------
(* find_location_in_tree and find_local_packages *)

DirType_CheckOut == 1
DirType_Object == 2
DirType_Install == 4
DirType_Root == 6

None == "<None>"
NoPath == RelPath(<<>>)

\* a (DirType, name, role) triple; for DirType.Root the second element is a
\* directory, kept in dir
NoLocRet == [kind |-> "none", what |-> 0, name |-> None, dir |-> NoPath,
             role |-> None, pkgs |-> <<>>]
Triple(what, name, role) ==
    [kind |-> "value", what |-> what, name |-> name, dir |-> NoPath,
     role |-> role, pkgs |-> <<>>]
RootTriple(dir) ==
    [kind |-> "value", what |-> DirType_Root, name |-> None, dir |-> dir,
     role |-> None, pkgs |-> <<>>]
RetNone == [NoLocRet EXCEPT !.kind = "None"]
\* the call never returns: its loop goes round without changing dir
NoReturn == [NoLocRet EXCEPT !.kind = "diverges"]
PkgList(list) == [NoLocRet EXCEPT !.kind = "value", !.pkgs = list]

\* the checkout index: invocation.has_checkout_called,
\* invocation.db.get_checkout_path(name, isRelative = True) as segments, and
\* invocation.packages_for_checkout
NoInv == [given |-> FALSE, checkouts |-> <<>>]
Inv(checkouts) == [given |-> TRUE, checkouts |-> checkouts]

has_checkout_called(inv, name) == name \in DOMAIN inv.checkouts
get_checkout_path(inv, name) == inv.checkouts[name]

Pkg(name, role) == [name |-> name, role |-> role]

packages_for_checkout(name) ==
    IF name = "a" THEN <<Pkg("p", None), Pkg("q", "r")>>
    ELSE IF name = "b" THEN <<Pkg("q", "r"), Pkg("q", None), Pkg("p", "r")>>
    ELSE <<>>

\* some x in rel_path makes the joined check_path equal to db_path
MatchesPrefix(rel_path, db_path) ==
    \E n \in 1..Len(rel_path) : SubSeq(rel_path, 1, n) = db_path

\* the for loop over range(2, len(rest)+1), from i on (rest[k] here is the
\* code's rest[k-1])
RECURSIVE CheckoutFromIndex(_, _, _)
CheckoutFromIndex(inv, rest, i) ==
    IF i > Len(rest) THEN None
    ELSE LET rel_path == SubSeq(rest, 2, i)
             putative_name == rest[i]
         IN  IF /\ has_checkout_called(inv, putative_name)
                /\ MatchesPrefix(rel_path, get_checkout_path(inv, putative_name))
             THEN putative_name
             ELSE CheckoutFromIndex(inv, rest, i + 1)

\* the body of 'if (base == root)': rest is the path of dir below root
Classify(dir, rest, inv) ==
    LET sub_dir == IF Len(rest) > 1 THEN rest[2] ELSE None
        indexed == IF Len(rest) > 1 /\ inv.given
                   THEN CheckoutFromIndex(inv, rest, 2)
                   ELSE None
    IN  IF rest[1] = "src"
        THEN IF indexed # None THEN Triple(DirType_CheckOut, indexed, None)
             ELSE Triple(DirType_CheckOut, sub_dir, None)
        ELSE IF rest[1] = "obj"
        THEN Triple(DirType_Object, sub_dir, IF Len(rest) > 2 THEN rest[3] ELSE None)
        ELSE IF rest[1] = "install" THEN Triple(DirType_Install, sub_dir, None)
        ELSE IF rest[1] = "domains" THEN RootTriple(dir)
        ELSE RetNone

\* the loop 'while dir != "/"'
RECURSIVE WalkUp(_, _, _, _)
WalkUp(dir, root, rest, inv) ==
    IF dir = AbsPath(<<>>) THEN RetNone
    ELSE LET sp == path_split(dir)
             rest1 == <<sp.tail>> \o rest
         IN  IF sp.head = root THEN Classify(dir, rest1, inv)
             ELSE IF sp.head = dir THEN NoReturn
             ELSE WalkUp(sp.head, root, rest1, inv)

find_location_in_tree(dir, root, invocation) ==
    LET d == normpath(dir)
        r == normpath(root)
    IN  IF d = r THEN RootTriple(r)
        ELSE WalkUp(d, r, <<>>, invocation)

\* "%s{%s}"%(name, role), or the name alone
Rendered(name, role) == IF role = None THEN <<name>> ELSE <<name, "{", role, "}">>

RenderedAll(packages) == [i \in 1..Len(packages) |-> Rendered(packages[i].name, packages[i].role)]

\* find_local_packages with the Object branch guarded like the CheckOut branch
find_local_packages_guarded(dir, root, inv) ==
    LET tloc == find_location_in_tree(dir, root, inv)
    IN  IF tloc.kind # "value" THEN tloc
        ELSE IF tloc.what = DirType_CheckOut
        THEN IF tloc.name = None THEN RetNone
             ELSE PkgList(RenderedAll(packages_for_checkout(tloc.name)))
        ELSE IF tloc.what = DirType_Object
        THEN IF tloc.name = None THEN RetNone
             ELSE PkgList(<<Rendered(tloc.name, tloc.role)>>)
        ELSE RetNone

find_local_packages(dir, root, inv) ==
    LET tloc == find_location_in_tree(dir, root, inv)
    IN  IF tloc.kind # "value" THEN tloc
        ELSE IF tloc.what = DirType_CheckOut
        THEN IF tloc.name = None THEN RetNone
             ELSE PkgList(RenderedAll(packages_for_checkout(tloc.name)))
        ELSE IF tloc.what = DirType_Object
        THEN PkgList(<<Rendered(tloc.name, tloc.role)>>)
        ELSE RetNone

----------------------------------------------------------------------------
(* The location functions applied to bounded inputs *)

TreeSegs == {"src", "obj", "install", "domains", "a", "b"}
Rests == UNION {[1..n -> TreeSegs] : n \in 0..MaxRest}

\* "/", "/w", "w" and "."
LocRoots == {AbsPath(<<>>), AbsPath(<<"w">>), RelPath(<<"w">>), RelPath(<<".">>)}

\* where the index may have a checkout registered
DbPaths == {<<"a">>, <<"b">>, <<"a", "b">>}

Indexes == UNION {[names -> DbPaths] : names \in SUBSET Names}

LocIdle ==
    /\ loc_dir = NoPath
    /\ loc_root = NoPath
    /\ loc_inv = NoInv
    /\ loc_call = "none"
    /\ loc_ret = NoLocRet

\* dir is root followed by some segments (os.path.join(root, ...)), or some
\* path of its own
LocInit ==
    /\ loc_root \in LocRoots
    /\ \/ \E rest \in Rests : loc_dir = [abs |-> loc_root.abs, segs |-> loc_root.segs \o rest]
       \/ \E rest \in Rests : Len(rest) < MaxRest /\ loc_dir = AbsPath(<<"v">> \o rest)
       \/ loc_dir \in {RelPath(<<"src">>), RelPath(<<"..", "w", "src">>)}
    /\ loc_inv \in {NoInv} \cup {Inv(c) : c \in Indexes}
    /\ loc_call = "none"
    /\ loc_ret = NoLocRet

FindLocationInTree ==
    /\ loc_call' = "find_location_in_tree"
    /\ loc_ret' = find_location_in_tree(loc_dir, loc_root, loc_inv)
    /\ UNCHANGED <<loc_dir, loc_root, loc_inv, not_loc>>

\* find_local_packages is always given an index
FindLocalPackages ==
    /\ loc_inv.given
    /\ loc_call' = "find_local_packages"
    /\ loc_ret' = find_local_packages(loc_dir, loc_root, loc_inv)
    /\ UNCHANGED <<loc_dir, loc_root, loc_inv, not_loc>>

LocNext == FindLocationInTree \/ FindLocalPackages

----------------------------------------------------------------------------
(* HashFile and calc_file_hash *)

\* hashlib.sha1: the object holds the text it was updated with, and hexdigest
\* is a function of that text alone, taken to be free of collisions
sha1_new == <<>>
sha1_update(sha, text) == sha \o text
sha1_hexdigest(sha) == [sha1_of |-> sha]

NoDigest == [sha1_of |-> <<"<not computed>">>]

\* HashFile.__init__(name, mode): open(name, 'w') empties the file
HashFile(data, mode) ==
    [mode |-> mode,
     data |-> IF mode = "w" THEN <<>> ELSE data,
     pos |-> 0,
     sha |-> sha1_new]

\* HashFile.write with the mode looked at only after the digest was updated
HashFile_write_late_check(hf, text) ==
    IF hf.mode # "w"
    THEN [hf |-> [hf EXCEPT !.sha = sha1_update(@, text)], raised |-> "Error"]
    ELSE [hf |-> [hf EXCEPT !.data = @ \o text,
                           !.pos = Len(hf.data) + Len(text),
                           !.sha = sha1_update(@, text)],
          raised |-> "no"]

\* HashFile.write(text): the object afterwards, and whether Error was raised
HashFile_write(hf, text) ==
    IF hf.mode # "w" THEN [hf |-> hf, raised |-> "Error"]
    ELSE [hf |-> [hf EXCEPT !.data = @ \o text,
                           !.pos = Len(hf.data) + Len(text),
                           !.sha = sha1_update(@, text)],
          raised |-> "no"]

\* fd.readline(): the text from the file position to the next '\n' included,
\* or to the end of the file
NextLine(data, pos) ==
    LET ends == {i \in (pos + 1)..Len(data) : data[i] = "\n"}
        stop == IF ends = {} THEN Len(data)
                ELSE CHOOSE i \in ends : \A j \in ends : i <= j
    IN  SubSeq(data, pos + 1, stop)

\* HashFile.readline with the line ending left out of the hash
HashFile_readline_stripped(hf) ==
    IF hf.mode # "r" THEN [hf |-> hf, text |-> <<>>, raised |-> "Error"]
    ELSE LET text == NextLine(hf.data, hf.pos)
             body == IF text # <<>> /\ Last(text) = "\n" THEN Front(text) ELSE text
         IN  [hf |-> [hf EXCEPT !.pos = @ + Len(text), !.sha = sha1_update(@, body)],
              text |-> text, raised |-> "no"]

\* HashFile.readline(): the object afterwards, the text returned ('' at the
\* end of the file), and whether Error was raised
HashFile_readline(hf) ==
    IF hf.mode # "r" THEN [hf |-> hf, text |-> <<>>, raised |-> "Error"]
    ELSE LET text == NextLine(hf.data, hf.pos)
         IN  IF text = <<>> THEN [hf |-> hf, text |-> <<>>, raised |-> "no"]
             ELSE [hf |-> [hf EXCEPT !.pos = @ + Len(text), !.sha = sha1_update(@, text)],
                   text |-> text, raised |-> "no"]

\* HashFile.next that hashes the line a second time
HashFile_next_rehashed(hf) ==
    LET got == HashFile_readline(hf)
    IN  IF got.raised = "no" /\ got.text = <<>>
        THEN [got EXCEPT !.raised = "StopIteration"]
        ELSE [got EXCEPT !.hf.sha = sha1_update(@, got.text)]

\* HashFile.next(): readline, with StopIteration for ''
HashFile_next(hf) ==
    LET got == HashFile_readline(hf)
    IN  IF got.raised = "no" /\ got.text = <<>>
        THEN [got EXCEPT !.raised = "StopIteration"]
        ELSE got

\* HashFile.hash()
HashFile_hash(hf) == sha1_hexdigest(hf.sha)

\* HashFile.__iter__(): the object itself, or Error for a file opened 'w'
HashFile_iter(hf) ==
    IF hf.mode # "r" THEN [hf |-> hf, raised |-> "Error"]
    ELSE [hf |-> hf, raised |-> "no"]

\* no HashFile: the name the constructor would have bound stays unbound
NoHashFile == [mode |-> "unbound", data |-> <<>>, pos |-> 0, sha |-> sha1_new]

\* HashFile.__init__(name, mode): the mode is looked at before open(name, mode)
HashFile_init(data, mode) ==
    IF mode \notin {"r", "w"}
    THEN [hf |-> NoHashFile, opened |-> FALSE, raised |-> "ValueError"]
    ELSE [hf |-> HashFile(data, mode), opened |-> TRUE, raised |-> "no"]

\* 'for line in fd: pass': next() until it raises
RECURSIVE Exhaust(_)
Exhaust(hf) ==
    LET got == HashFile_next(hf)
    IN  IF got.raised # "no" THEN hf ELSE Exhaust(got.hf)

calc_file_hash(data) == HashFile_hash(Exhaust(HashFile(data, "r")))

----------------------------------------------------------------------------
(* HashFile applied to bounded contents *)

ContentChars == {"x", "\n"}
Contents == StringsUpTo(ContentChars, MaxContent)

HashIdle ==
    /\ hf_content = <<>>
    /\ hf_w = HashFile(<<>>, "w")
    /\ hf_r = HashFile(<<>>, "r")
    /\ calc_ret = NoDigest

HashInit ==
    /\ hf_content \in Contents
    /\ hf_w = HashFile(<<>>, "w")
    /\ hf_r = HashFile(hf_content, "r")
    /\ calc_ret = NoDigest

\* hf_w.write(text), for any text the bound leaves room for
Write ==
    \E text \in Contents :
        /\ Len(hf_w.data) + Len(text) <= MaxContent
        /\ hf_w' = HashFile_write(hf_w, text).hf
        /\ UNCHANGED <<hf_content, hf_r, calc_ret, not_hash>>

\* hf_r.readline()
ReadLine ==
    /\ hf_r' = HashFile_readline(hf_r).hf
    /\ UNCHANGED <<hf_content, hf_w, calc_ret, not_hash>>

\* calc_file_hash of the file holding hf_content
CalcFileHash ==
    /\ calc_ret' = calc_file_hash(hf_content)
    /\ UNCHANGED <<hf_content, hf_w, hf_r, not_hash>>

HashNext == Write \/ ReadLine \/ CalcFileHash

----------------------------------------------------------------------------
(* One HashFile of any mode, used with every method *)

Modes == {"r", "w", "a", "rb"}

UseIdle ==
    /\ hu_file = <<>>
    /\ hu_mode = "r"
    /\ hu = NoHashFile
    /\ hu_opened = FALSE
    /\ hu_op = "none"
    /\ hu_raised = "no"
    /\ hu_prev = NoHashFile
    /\ hu_texts = <<>>
    /\ hu_hash = NoDigest

UseInit ==
    /\ hu_file \in Contents
    /\ hu_mode \in Modes
    /\ hu = NoHashFile
    /\ hu_opened = FALSE
    /\ hu_op = "none"
    /\ hu_raised = "no"
    /\ hu_prev = NoHashFile
    /\ hu_texts = <<>>
    /\ hu_hash = NoDigest

\* hu = HashFile(name, mode)
UseConstruct ==
    LET made == HashFile_init(hu_file, hu_mode)
    IN  /\ hu_op = "none"
        /\ hu' = made.hf
        /\ hu_opened' = made.opened
        /\ hu_raised' = made.raised
        /\ hu_op' = "__init__"
        /\ hu_prev' = hu
        /\ UNCHANGED <<hu_file, hu_mode, hu_texts, hu_hash, not_use>>

\* hu.write(text)
UseWrite ==
    \E text \in Contents :
        LET done == HashFile_write(hu, text)
        IN  /\ hu # NoHashFile
            /\ hu.mode = "w" => Len(hu.data) + Len(text) <= MaxContent
            /\ hu' = done.hf
            /\ hu_raised' = done.raised
            /\ hu_op' = "write"
            /\ hu_prev' = hu
            /\ hu_texts' = IF done.raised = "no" THEN hu_texts \o text ELSE hu_texts
            /\ UNCHANGED <<hu_file, hu_mode, hu_opened, hu_hash, not_use>>

\* hu.readline()
UseReadline ==
    LET got == HashFile_readline(hu)
    IN  /\ hu # NoHashFile
        /\ hu' = got.hf
        /\ hu_raised' = got.raised
        /\ hu_op' = "readline"
        /\ hu_prev' = hu
        /\ hu_texts' = IF got.raised = "no" THEN hu_texts \o got.text ELSE hu_texts
        /\ UNCHANGED <<hu_file, hu_mode, hu_opened, hu_hash, not_use>>

\* hu.next()
UseNext ==
    LET got == HashFile_next(hu)
    IN  /\ hu # NoHashFile
        /\ hu' = got.hf
        /\ hu_raised' = got.raised
        /\ hu_op' = "next"
        /\ hu_prev' = hu
        /\ hu_texts' = IF got.raised = "no" THEN hu_texts \o got.text ELSE hu_texts
        /\ UNCHANGED <<hu_file, hu_mode, hu_opened, hu_hash, not_use>>

\* iter(hu), as a for loop over hu starts
UseIter ==
    LET got == HashFile_iter(hu)
    IN  /\ hu # NoHashFile
        /\ hu' = got.hf
        /\ hu_raised' = got.raised
        /\ hu_op' = "__iter__"
        /\ hu_prev' = hu
        /\ UNCHANGED <<hu_file, hu_mode, hu_opened, hu_texts, hu_hash, not_use>>

\* hu.hash(): hexdigest() leaves the sha1 object as it is
UseHash ==
    /\ hu # NoHashFile
    /\ hu_hash' = HashFile_hash(hu)
    /\ hu_raised' = "no"
    /\ hu_op' = "hash"
    /\ hu_prev' = hu
    /\ UNCHANGED <<hu_file, hu_mode, hu, hu_opened, hu_texts, not_use>>

UseStep == UseConstruct \/ UseWrite \/ UseReadline \/ UseNext \/ UseIter \/ UseHash

----------------------------------------------------------------------------
(* AptGetBuilder: already_installed and build_label *)

\* the names muddled/utils.py defines that the packages and handlers refer to
utils_names == {"Error", "Failure", "Tags", "LabelKind", "DirType",
                "ensure_dir", "run_cmd", "get_cmd_data"}

\* utils.Tags
Tags_PreConfig == "preconfig"
Tags_Built == "built"
Tags_PostInstalled == "postinstalled"

\* line.splitlines() and line.split()
SplitLines(s) ==
    LET pieces == SplitOn(s, "\n")
    IN  IF pieces[Len(pieces)] = <<>> THEN SubSeq(pieces, 1, Len(pieces) - 1)
        ELSE pieces

SplitFields(l) == SelectSeq(SplitOn(l, " "), LAMBDA f : f # <<>>)

\* what dpkg-query -W -f='${db:Status-Abbrev} ${Package}\n' pkg prints: nothing
\* for a package the host does not know, else the format filled in; the
\* quotes are part of the format, since the argument list goes through no shell
Unknown == <<>>

dpkg_query(db, pkg) ==
    IF db[pkg] = Unknown THEN <<>>
    ELSE <<"'">> \o db[pkg] \o <<" ">> \o pkg \o <<"\n", "'">>

\* AptGetBuilder.already_installed(pkg)
already_installed(db, pkg) ==
    LET lines == SplitLines(dpkg_query(db, pkg))
    IN  \E i \in 1..Len(lines) :
            LET fields == SplitFields(lines[i])
            IN  /\ Len(fields) = 2
                /\ fields[2] = pkg
                /\ Len(fields[1]) >= 2
                /\ fields[1][2] = "i"

NoAptRet == [queries |-> <<>>, installs |-> <<>>, raised |-> "not called"]

\* 'sudo apt-get install' as the head of cmd_list
AptGetInstall == <<"sudo", "apt-get", "install">>

\* AptGetBuilder.build_label(builder, label) in a utils module that defines
\* the given names: the packages queried, the installer command lines run,
\* and the exception raised
build_label_in(names, pkgs, db, tag, rv) ==
    IF "LabelTag" \notin names
    THEN [queries |-> <<>>, installs |-> <<>>, raised |-> "AttributeError"]
    ELSE IF tag # Tags_Built
    THEN [queries |-> <<>>, installs |-> <<>>, raised |-> "no"]
    ELSE LET need_to_install == SelectSeq(pkgs, LAMBDA p : ~already_installed(db, p))
         IN  IF Len(need_to_install) > 0
             THEN [queries |-> pkgs,
                   installs |-> <<AptGetInstall \o need_to_install>>,
                   raised |-> IF rv = 0 THEN "no"
                              ELSE IF "GiveUp" \in names THEN "GiveUp"
                              ELSE "AttributeError"]
             ELSE [queries |-> pkgs, installs |-> <<>>, raised |-> "no"]

build_label(pkgs, db, tag, rv) == build_label_in(utils_names, pkgs, db, tag, rv)

----------------------------------------------------------------------------
(* build_label applied to bounded package lists and host databases *)

PkgNames == {<<"a">>, <<"b">>}
PkgLists == UNION {[1..k -> PkgNames] : k \in 0..MaxPkgs}

\* db:Status-Abbrev: installed, removed with its configuration left, unpacked
StatusAbbrevs == {<<"i", "i", " ">>, <<"r", "c", " ">>, <<"i", "U", " ">>}

LabelTags == {Tags_PreConfig, Tags_Built, Tags_PostInstalled}

AptIdle ==
    /\ apt_pkgs = <<>>
    /\ apt_db = [p \in PkgNames |-> Unknown]
    /\ apt_tag = Tags_Built
    /\ apt_rv = 0
    /\ apt_call = "none"
    /\ apt_ret = NoAptRet

AptInit ==
    /\ apt_pkgs \in PkgLists
    /\ apt_db \in [PkgNames -> StatusAbbrevs \cup {Unknown}]
    /\ apt_tag \in LabelTags
    /\ apt_rv \in {0, 1}
    /\ apt_call = "none"
    /\ apt_ret = NoAptRet

\* the_pkg.build_label(builder, label)
BuildLabel ==
    /\ apt_call' = "build_label"
    /\ apt_ret' = build_label(apt_pkgs, apt_db, apt_tag, apt_rv)
    /\ UNCHANGED <<apt_pkgs, apt_db, apt_tag, apt_rv, not_apt>>

AptNext == BuildLabel

----------------------------------------------------------------------------
(* run_cmd and get_cmd_data *)

\* "%d" % n
RECURSIVE DecDigits(_)
DecDigits(n) ==
    LET digit == <<"0", "1", "2", "3", "4", "5", "6", "7", "8", "9">>[(n % 10) + 1]
    IN  IF n < 10 THEN <<digit>> ELSE DecDigits(n \div 10) \o <<digit>>

FormatD(n) == IF n < 0 THEN <<"-">> \o DecDigits(0 - n) ELSE DecDigits(n)

\* "Command '%s' execution failed - %d" % (cmd, rv)
ExecutionFailed(cmd, rv) ==
    <<"C", "o", "m", "m", "a", "n", "d", " ", "'">> \o cmd
        \o <<"'", " ", "e", "x", "e", "c", "u", "t", "i", "o", "n", " ",
             "f", "a", "i", "l", "e", "d", " ", "-", " ">> \o FormatD(rv)

NoValue == <<"<no value>">>

Returned(value) == [kind |-> "return", value |-> value, msg |-> <<>>]
Raised(exception, msg) == [kind |-> exception, value |-> NoValue, msg |-> msg]
NotCalled == [kind |-> "not called", value |-> NoValue, msg |-> <<>>]

\* run_cmd that reports a failure of a user's command as Error
run_cmd_always_error(cmd, allowFailure, isSystem, rv) ==
    IF allowFailure \/ rv = 0 THEN Returned(rv)
    ELSE Raised("Error", ExecutionFailed(cmd, rv))

\* run_cmd(cmd, allowFailure, isSystem), the command exiting with rv
run_cmd(cmd, allowFailure, isSystem, rv) ==
    IF allowFailure \/ rv = 0 THEN Returned(rv)
    ELSE IF isSystem THEN Raised("Error", ExecutionFailed(cmd, rv))
    ELSE Raised("Failure", ExecutionFailed(cmd, rv))

\* the names get_cmd_data can refer to: its parameters, its local variables
\* and the names of the module
get_cmd_data_names ==
    {"cmd", "env", "isSystem", "fold_stderr", "verbose", "fail_nonzero",
     "p", "stdoutdata", "stderrdata", "returncode"} \cup utils_names

\* p.communicate() with stderr=subprocess.STDOUT or subprocess.PIPE
communicate(exit, fold_stderr) ==
    IF fold_stderr THEN <<exit.out \o exit.err, None>> ELSE <<exit.out, exit.err>>

\* get_cmd_data(cmd, isSystem, fold_stderr, fail_nonzero), the command doing
\* what exit says
get_cmd_data(cmd, isSystem, fold_stderr, fail_nonzero, exit) ==
    LET data == communicate(exit, fold_stderr)
        returncode == exit.code
    IN  IF fail_nonzero /\ returncode # 0
        THEN IF "rv" \notin get_cmd_data_names THEN Raised("NameError", <<>>)
             ELSE IF isSystem THEN Raised("Error", ExecutionFailed(cmd, returncode))
             ELSE Raised("Failure", ExecutionFailed(cmd, returncode))
        ELSE Returned(<<returncode, data[1], data[2]>>)

----------------------------------------------------------------------------
(* The two applied to bounded commands and outcomes *)

CmdStrings == {<<"l", "s">>, <<"b", "z", "r", " ", "u", "p">>}
ExitCodes == {0, 1, 127, 0 - 9}
Outputs == {<<>>, <<"o", "\n">>}

CmdIdle ==
    /\ cmd_cmd = <<>>
    /\ cmd_flags = [allowFailure |-> FALSE, isSystem |-> FALSE,
                    fold_stderr |-> TRUE, fail_nonzero |-> TRUE]
    /\ cmd_exit = [code |-> 0, out |-> <<>>, err |-> <<>>]
    /\ cmd_call = "none"
    /\ cmd_ret = NotCalled

CmdInit ==
    /\ cmd_cmd \in CmdStrings
    /\ cmd_flags \in [allowFailure : BOOLEAN, isSystem : BOOLEAN,
                       fold_stderr : BOOLEAN, fail_nonzero : BOOLEAN]
    /\ cmd_exit \in [code : ExitCodes, out : Outputs, err : Outputs]
    /\ cmd_call = "none"
    /\ cmd_ret = NotCalled

\* run_cmd(cmd, allowFailure = ..., isSystem = ...)
RunCmd ==
    /\ cmd_call' = "run_cmd"
    /\ cmd_ret' = run_cmd(cmd_cmd, cmd_flags.allowFailure, cmd_flags.isSystem,
                          cmd_exit.code)
    /\ UNCHANGED <<cmd_cmd, cmd_flags, cmd_exit, not_cmd>>

\* get_cmd_data(cmd, isSystem = ..., fold_stderr = ..., fail_nonzero = ...)
GetCmdData ==
    /\ cmd_call' = "get_cmd_data"
    /\ cmd_ret' = get_cmd_data(cmd_cmd, cmd_flags.isSystem, cmd_flags.fold_stderr,
                               cmd_flags.fail_nonzero, cmd_exit)
    /\ UNCHANGED <<cmd_cmd, cmd_flags, cmd_exit, not_cmd>>

CmdNext == RunCmd \/ GetCmdData

----------------------------------------------------------------------------
(* ensure_dir and the Bazaar version control handler *)

\* a process at work: the file system, its working directory, the commands it
\* has run (each with the directory it ran in and its exit code), and the
\* exception that ended it, "no" while it goes on
Process(fs, wd) == [fs |-> fs, cwd |-> wd, cmds |-> <<>>, raised |-> "no"]

KindOf(fs, place) == IF place \in DOMAIN fs THEN fs[place] ELSE "absent"

\* ensure_dir(dir)
ensure_dir(pr, dir) ==
    LET place == Resolve(pr.cwd, dir)
    IN  IF pr.raised # "no" THEN pr
        ELSE IF KindOf(pr.fs, place) = "dir" THEN pr
        ELSE IF KindOf(pr.fs, place) # "absent" THEN [pr EXCEPT !.raised = "Error"]
        ELSE [pr EXCEPT !.fs = [q \in DOMAIN pr.fs |-> IF q = place THEN "dir" ELSE pr.fs[q]]]

\* os.chdir(path)
os_chdir(pr, path) ==
    LET place == Resolve(pr.cwd, path)
    IN  IF pr.raised # "no" THEN pr
        ELSE IF KindOf(pr.fs, place) = "dir" THEN [pr EXCEPT !.cwd = place]
        ELSE [pr EXCEPT !.raised = "OSError"]

\* utils.run_cmd(cmd, allowFailure = ...) by the process, the command exiting
\* with rv
utils_run_cmd(pr, cmd, allowFailure, rv) ==
    LET done == run_cmd(cmd, allowFailure, FALSE, rv)
    IN  IF pr.raised # "no" THEN pr
        ELSE [pr EXCEPT !.cmds = Append(@, [cmd |-> cmd, cwd |-> pr.cwd, rv |-> rv]),
                        !.raised = IF done.kind = "return" THEN "no" ELSE done.kind]

\* self.revision is None
NoRevision == <<"<None>">>
HEAD == <<"H", "E", "A", "D">>

\* Bazaar.r_option that leaves only an absent revision out
r_option_none_only(revision) ==
    IF revision = NoRevision THEN <<>> ELSE <<"-", "r", " ">> \o revision

\* Bazaar.r_option()
r_option(revision) ==
    IF revision = NoRevision \/ revision = HEAD THEN <<>>
    ELSE <<"-", "r", " ">> \o revision

\* "bzr co %s %s %s" % (self.r_option(), self.bzr_repo, self.checkout_name)
bzr_co(self) ==
    <<"b", "z", "r", " ", "c", "o", " ">> \o r_option(self.revision) \o <<" ">>
        \o self.bzr_repo \o <<" ">> \o self.checkout_name

bzr_unbind == <<"b", "z", "r", " ", "u", "n", "b", "i", "n", "d">>
bzr_pull(self) == <<"b", "z", "r", " ", "p", "u", "l", "l", " ">> \o self.bzr_repo
bzr_update == <<"b", "z", "r", " ", "u", "p", "d", "a", "t", "e">>
bzr_commit == <<"b", "z", "r", " ", "c", "o", "m", "m", "i", "t">>
bzr_push(self) == <<"b", "z", "r", " ", "p", "u", "s", "h", " ">> \o self.bzr_repo

\* Bazaar.check_out that goes on to unbind whatever the checkout did
Bazaar_check_out_unbinds_anyway(self, pr, rv1, rv2) ==
    utils_run_cmd(os_chdir(utils_run_cmd(os_chdir(ensure_dir(pr, self.co_path),
                                                  self.co_path),
                                         bzr_co(self), TRUE, rv1),
                           self.co_path),
                  bzr_unbind, FALSE, rv2)

\* Bazaar.check_out(), its two commands exiting with rv1 and rv2
Bazaar_check_out(self, pr, rv1, rv2) ==
    utils_run_cmd(os_chdir(utils_run_cmd(os_chdir(ensure_dir(pr, self.co_path),
                                                  self.co_path),
                                         bzr_co(self), FALSE, rv1),
                           self.co_path),
                  bzr_unbind, FALSE, rv2)

\* Bazaar.pull that ignores the exit code
Bazaar_pull_tolerant(self, pr, rv) ==
    utils_run_cmd(os_chdir(pr, self.co_path), bzr_pull(self), TRUE, rv)

\* Bazaar.pull()
Bazaar_pull(self, pr, rv) ==
    utils_run_cmd(os_chdir(pr, self.co_path), bzr_pull(self), FALSE, rv)

\* Bazaar.update()
Bazaar_update(self, pr, rv) ==
    utils_run_cmd(os_chdir(pr, self.co_path), bzr_update, TRUE, rv)

\* Bazaar.commit that runs where the process happens to be
Bazaar_commit_in_place(self, pr, rv) ==
    utils_run_cmd(pr, bzr_commit, FALSE, rv)

\* Bazaar.commit()
Bazaar_commit(self, pr, rv) ==
    utils_run_cmd(os_chdir(pr, self.co_path), bzr_commit, FALSE, rv)

\* Bazaar.push()
Bazaar_push(self, pr, rv) ==
    utils_run_cmd(os_chdir(pr, self.co_path), bzr_push(self), FALSE, rv)

\* Bazaar.must_update_to_commit()
Bazaar_must_update_to_commit == FALSE

----------------------------------------------------------------------------
(* Two Bazaar handlers at work in one process *)

Handlers == {"h1", "h2"}

\* the checkout directory each handler is bound to, and where else the
\* process may be when a handler is called
CoPathOf(h) == IF h = "h1" THEN AbsPath(<<"w", "src", "a">>)
               ELSE AbsPath(<<"w", "src", "b">>)
Elsewhere == <<"w">>
CoPlaces == {CoPathOf(h).segs : h \in Handlers}

Revisions == {NoRevision, HEAD, <<"1">>, <<"h", "e", "a", "d">>}

\* the handler as Bazaar.__init__ binds it
Bazaar(h) ==
    [revision |-> bzr_rev[h],
     bzr_repo |-> <<"u">>,
     checkout_name |-> IF h = "h1" THEN <<"a">> ELSE <<"b">>,
     co_path |-> CoPathOf(h)]

NoOp ==
    [h |-> "none", name |-> "none", was |-> "absent", from |-> <<>>,
     cmds |-> <<>>, raised |-> "no", value |-> "<None>"]

\* the record of an operation of handler h that left the process as pr
Op(h, name, pr, value) ==
    [h |-> h, name |-> name,
     was |-> KindOf(bzr_fs, CoPathOf(h).segs), from |-> bzr_cwd,
     cmds |-> pr.cmds, raised |-> pr.raised, value |-> value]

BzrIdle ==
    /\ bzr_rev = [h \in Handlers |-> NoRevision]
    /\ bzr_fs = [q \in CoPlaces \cup {Elsewhere} |-> "dir"]
    /\ bzr_cwd = Elsewhere
    /\ bzr_updated = [h \in Handlers |-> FALSE]
    /\ bzr_op = NoOp

BzrInit ==
    /\ bzr_rev \in [Handlers -> Revisions]
    /\ bzr_fs \in {fs \in [CoPlaces \cup {Elsewhere} -> {"dir", "file", "absent"}] :
                      fs[Elsewhere] = "dir"}
    /\ bzr_cwd \in {q \in CoPlaces \cup {Elsewhere} : bzr_fs[q] = "dir"}
    /\ bzr_updated = [h \in Handlers |-> FALSE]
    /\ bzr_op = NoOp

\* the process goes on from where the operation left it
Leaves(pr) == bzr_fs' = pr.fs /\ bzr_cwd' = pr.cwd

CheckOut(h) ==
    \E rv1, rv2 \in ExitCodes :
        LET pr == Bazaar_check_out(Bazaar(h), Process(bzr_fs, bzr_cwd), rv1, rv2)
        IN  /\ Leaves(pr)
            /\ bzr_op' = Op(h, "check_out", pr, "<None>")
            /\ UNCHANGED <<bzr_rev, bzr_updated, not_bzr>>

Pull(h) ==
    \E rv \in ExitCodes :
        LET pr == Bazaar_pull(Bazaar(h), Process(bzr_fs, bzr_cwd), rv)
        IN  /\ Leaves(pr)
            /\ bzr_op' = Op(h, "pull", pr, "<None>")
            /\ UNCHANGED <<bzr_rev, bzr_updated, not_bzr>>

Update(h) ==
    \E rv \in ExitCodes :
        LET pr == Bazaar_update(Bazaar(h), Process(bzr_fs, bzr_cwd), rv)
        IN  /\ Leaves(pr)
            /\ bzr_op' = Op(h, "update", pr, "<None>")
            /\ bzr_updated' = [bzr_updated EXCEPT ![h] = TRUE]
            /\ UNCHANGED <<bzr_rev, not_bzr>>

Commit(h) ==
    \E rv \in ExitCodes :
        LET pr == Bazaar_commit(Bazaar(h), Process(bzr_fs, bzr_cwd), rv)
        IN  /\ Leaves(pr)
            /\ bzr_op' = Op(h, "commit", pr, "<None>")
            /\ UNCHANGED <<bzr_rev, bzr_updated, not_bzr>>

Push(h) ==
    \E rv \in ExitCodes :
        LET pr == Bazaar_push(Bazaar(h), Process(bzr_fs, bzr_cwd), rv)
        IN  /\ Leaves(pr)
            /\ bzr_op' = Op(h, "push", pr, "<None>")
            /\ UNCHANGED <<bzr_rev, bzr_updated, not_bzr>>

MustUpdateToCommit(h) ==
    /\ bzr_op' = Op(h, "must_update_to_commit", Process(bzr_fs, bzr_cwd),
                    Bazaar_must_update_to_commit)
    /\ UNCHANGED <<bzr_rev, bzr_fs, bzr_cwd, bzr_updated, not_bzr>>

BzrNext ==
    \E h \in Handlers :
        \/ CheckOut(h)
        \/ Pull(h)
        \/ Update(h)
        \/ Commit(h)
        \/ Push(h)
        \/ MustUpdateToCommit(h)

----------------------------------------------------------------------------
(* The Ruleset and the build run that walks it *)

Labels == 1..MaxLabels

\* the labels reachable from a set of labels along prerequisite edges
RECURSIVE Closure(_, _)
Closure(rules, from) ==
    LET more == from \cup UNION {rules[l] : l \in from}
    IN  IF more = from THEN from ELSE Closure(rules, more)

\* a prerequisite cycle among the labels reachable from the targets
HasCycle(rules, targets) ==
    \E l \in Closure(rules, targets) : l \in Closure(rules, rules[l])

\* the labels a failed Builder holds up: those that need a failed label
HeldUp(rules, failed) == {l \in DOMAIN rules : Closure(rules, rules[l]) \cap failed # {}}

\* a label is taken up although its Builder is already at work
Ready_while_at_work(l) ==
    /\ l \in Closure(bld_rules, bld_targets)
    /\ l \notin bld_done \cup bld_failed
    /\ l \notin HeldUp(bld_rules, bld_failed)
    /\ bld_rules[l] \subseteq bld_done

\* the walk takes a label up when it is wanted, its tag is not yet reached,
\* its Builder is neither at work nor failed, and every prerequisite is done
Ready(l) ==
    /\ l \in Closure(bld_rules, bld_targets)
    /\ l \notin bld_done \cup bld_running \cup bld_failed
    /\ l \notin HeldUp(bld_rules, bld_failed)
    /\ bld_rules[l] \subseteq bld_done

\* rulesets: any edges from a label to an earlier one, and possibly one edge
\* back from the first label to the last, which can close a cycle
Rulesets ==
    {rules \in [Labels -> SUBSET Labels] :
        \A l \in Labels : \A p \in rules[l] : p < l \/ (l = 1 /\ p = MaxLabels)}

BldIdle ==
    /\ bld_rules = [l \in Labels |-> {}]
    /\ bld_targets = {}
    /\ bld_status = "new"
    /\ bld_done = {}
    /\ bld_running = {}
    /\ bld_failed = {}
    /\ bld_count = [l \in Labels |-> 0]
    /\ bld_early = {}

BldInit ==
    /\ bld_rules \in Rulesets
    /\ bld_targets \in SUBSET Labels \ {{}}
    /\ bld_status = "new"
    /\ bld_done = {}
    /\ bld_running = {}
    /\ bld_failed = {}
    /\ bld_count = [l \in Labels |-> 0]
    /\ bld_early = {}

\* the order is computed, or a cycle is found before any Builder runs
Plan ==
    /\ bld_status = "new"
    /\ bld_status' = IF HasCycle(bld_rules, bld_targets) THEN "cycle" ELSE "running"
    /\ UNCHANGED <<bld_rules, bld_targets, bld_done, bld_running, bld_failed,
                   bld_count, bld_early, not_bld>>

\* the Builder of a ready label is invoked, if a worker is free
Invoke(l) ==
    /\ bld_status = "running"
    /\ Ready(l)
    /\ Cardinality(bld_running) < MaxWorkers
    /\ bld_count[l] < MaxWorkers       \* keeps the count finite
    /\ bld_running' = bld_running \cup {l}
    /\ bld_count' = [bld_count EXCEPT ![l] = @ + 1]
    /\ bld_early' = IF bld_rules[l] \subseteq bld_done THEN bld_early
                    ELSE bld_early \cup {l}
    /\ UNCHANGED <<bld_rules, bld_targets, bld_status, bld_done, bld_failed, not_bld>>

\* build_label returns: the tag of the label is recorded
Succeed(l) ==
    /\ l \in bld_running
    /\ bld_running' = bld_running \ {l}
    /\ bld_done' = bld_done \cup {l}
    /\ UNCHANGED <<bld_rules, bld_targets, bld_status, bld_failed, bld_count,
                   bld_early, not_bld>>

\* build_label raises: the branch that needs the label is given up
Fail(l) ==
    /\ l \in bld_running
    /\ bld_running' = bld_running \ {l}
    /\ bld_failed' = bld_failed \cup {l}
    /\ UNCHANGED <<bld_rules, bld_targets, bld_status, bld_done, bld_count,
                   bld_early, not_bld>>

\* the run is over and the same targets are asked for again
RunAgain ==
    /\ bld_status = "running"
    /\ bld_running = {}
    /\ \A l \in Labels : ~Ready(l)
    /\ bld_failed # {}
    /\ bld_status' = "new"
    /\ bld_failed' = {}
    /\ bld_count' = [l \in Labels |-> 0]
    /\ UNCHANGED <<bld_rules, bld_targets, bld_done, bld_running, bld_early, not_bld>>

BldNext ==
    \/ Plan
    \/ RunAgain
    \/ \E l \in Labels : Invoke(l) \/ Succeed(l) \/ Fail(l)

----------------------------------------------------------------------------
(* Specifications: one group of functions at a time, the other groups idle *)

\* every group but the domain-name functions idle, and so on
IdleButDomain == RootIdle /\ LocIdle /\ HashIdle /\ UseIdle /\ AptIdle /\ CmdIdle /\ BzrIdle /\ BldIdle
IdleButRoot == DomIdle /\ LocIdle /\ HashIdle /\ UseIdle /\ AptIdle /\ CmdIdle /\ BzrIdle /\ BldIdle
IdleButLoc == DomIdle /\ RootIdle /\ HashIdle /\ UseIdle /\ AptIdle /\ CmdIdle /\ BzrIdle /\ BldIdle
IdleButHash == DomIdle /\ RootIdle /\ LocIdle /\ UseIdle /\ AptIdle /\ CmdIdle /\ BzrIdle /\ BldIdle
IdleButUse == DomIdle /\ RootIdle /\ LocIdle /\ HashIdle /\ AptIdle /\ CmdIdle /\ BzrIdle /\ BldIdle
IdleButApt == DomIdle /\ RootIdle /\ LocIdle /\ HashIdle /\ UseIdle /\ CmdIdle /\ BzrIdle /\ BldIdle
IdleButCmd == DomIdle /\ RootIdle /\ LocIdle /\ HashIdle /\ UseIdle /\ AptIdle /\ BzrIdle /\ BldIdle
IdleButBzr == DomIdle /\ RootIdle /\ LocIdle /\ HashIdle /\ UseIdle /\ AptIdle /\ CmdIdle /\ BldIdle
IdleButBld == DomIdle /\ RootIdle /\ LocIdle /\ HashIdle /\ UseIdle /\ AptIdle /\ CmdIdle /\ BzrIdle

InitDomain == DomInit /\ IdleButDomain
SpecDomain == InitDomain /\ [][DomNext]_vars

InitRoot == RootInit /\ IdleButRoot
SpecRoot == InitRoot /\ [][RootNext]_vars

InitLoc == LocInit /\ IdleButLoc
SpecLoc == InitLoc /\ [][LocNext]_vars

InitHash == HashInit /\ IdleButHash
SpecHash == InitHash /\ [][HashNext]_vars

InitUse == UseInit /\ IdleButUse
SpecUse == InitUse /\ [][UseStep]_vars

InitApt == AptInit /\ IdleButApt
SpecApt == InitApt /\ [][AptNext]_vars

InitCmd == CmdInit /\ IdleButCmd
SpecCmd == InitCmd /\ [][CmdNext]_vars

InitBzr == BzrInit /\ IdleButBzr
SpecBzr == InitBzr /\ [][BzrNext]_vars

InitBld == BldInit /\ IdleButBld
SpecBld == InitBld /\ [][BldNext]_vars

----------------------------------------------------------------------------
(* Claims about split_domain and domain_subpath *)

Count(s, c) == Cardinality({i \in 1..Len(s) : s[i] = c})

\* the parentheses of s do not pair up: the counts differ, or some ')' has no
\* earlier '(' left to close
Unbalanced(s) ==
    \/ Count(s, "(") # Count(s, ")")
    \/ \E i \in 1..Len(s) :
           Count(SubSeq(s, 1, i), ")") > Count(SubSeq(s, 1, i), "(")

\* sep.join(list)
RECURSIVE JoinWith(_, _)
JoinWith(list, sep) ==
    IF list = <<>> THEN <<>>
    ELSE IF Len(list) = 1 THEN list[1]
    ELSE list[1] \o sep \o JoinWith(Tail(list), sep)

DomainsSlash == <<"d", "o", "m", "a", "i", "n", "s", "/">>

\* 'domains/' followed by the elements joined with '/domains/'
ExpectedSubpath(parts) == DomainsSlash \o JoinWith(parts, <<"/">> \o DomainsSlash)

\* C1: split_domain of id1(id2(...idN...)), composed from identifiers without
\* parentheses and closed by exactly N-1 ')', is [id1, ..., idN], outermost
\* first; a string without '(' comes back unchanged as a one-element list.
C1_SplitWellFormed ==
    dom_call = "split_domain" =>
        /\ ids_in # <<>> => dom_ret = Parts(ids_in)
        /\ ~Contains(domain_name, "(") => dom_ret = Parts(<<domain_name>>)

C1_Witness ==
    /\ dom_call = "split_domain"
    /\ Len(ids_in) = 3
    /\ ids_in[1] = <<"a">> /\ ids_in[2] = <<"b">> /\ ids_in[3] = <<"a">>
    /\ dom_ret.parts = ids_in

\* C2: split_domain raises Failure, echoing the string, for every string whose
\* parentheses are unbalanced (reporting mis-matched parentheses unless the
\* sibling check has already fired), and returns a list for none of them.
C2_RejectsUnbalanced ==
    (dom_call = "split_domain" /\ Unbalanced(domain_name)) =>
        /\ dom_ret.kind = "Failure"
        /\ dom_ret.name = domain_name
        /\ ~ContainsSub(domain_name, <<")", "(">>) => dom_ret.msg = MisMatched

\* C3: a string that contains '(' and the substring ')(' makes split_domain
\* raise the 'sibling' Failure, also when its parentheses are mis-matched too.
C3_SiblingFirst ==
    (/\ dom_call = "split_domain"
     /\ Contains(domain_name, "(")
     /\ ContainsSub(domain_name, <<")", "(">>)) =>
        dom_ret = Failure(Sibling, domain_name)

C3_Witness ==
    /\ dom_call = "split_domain"
    /\ ContainsSub(domain_name, <<")", "(">>)
    /\ Unbalanced(domain_name)
    /\ dom_ret = Failure(Sibling, domain_name)

\* C4 as claimed: wherever split_domain succeeds, domain_subpath is 'domains/'
\* plus the elements joined with '/domains/'; wherever it fails, domain_subpath
\* fails with the same Failure.
C4_SubpathAsClaimed ==
    dom_call = "domain_subpath" =>
        LET sd == split_domain(domain_name)
        IN  IF sd.kind = "value"
            THEN dom_ret = Path(ExpectedSubpath(sd.parts))
            ELSE dom_ret = sd

\* the elements os.path.join puts together with exactly one '/' between them:
\* none begins with '/', and none but the last is empty or ends with '/'
PlainParts(parts) ==
    /\ \A i \in 1..Len(parts) : ~StartsWith(parts[i], <<"/">>)
    /\ \A i \in 1..(Len(parts) - 1) :
           parts[i] # <<>> /\ ~EndsWith(parts[i], <<"/">>)

\* C4 (amended): the equation holds wherever split_domain succeeds with no
\* element beginning with '/' and no element but the last empty or ending with
\* '/'; wherever split_domain fails, domain_subpath fails with the same Failure.
C4_SubpathPlain ==
    dom_call = "domain_subpath" =>
        LET sd == split_domain(domain_name)
        IN  IF sd.kind = "value"
            THEN PlainParts(sd.parts) => dom_ret = Path(ExpectedSubpath(sd.parts))
            ELSE dom_ret = sd

C4_Witness ==
    /\ dom_call = "domain_subpath"
    /\ Len(ids_in) = 3
    /\ PlainParts(ids_in)
    /\ ids_in[1] # ids_in[2]
    /\ dom_ret = Path(ExpectedSubpath(ids_in))

----------------------------------------------------------------------------
(* Claims about find_root *)

\* n1(n2(...nk...)), outermost name first
RECURSIVE NestTokens(_)
NestTokens(names) ==
    IF Len(names) = 1 THEN <<names[1]>>
    ELSE <<names[1], "(">> \o NestTokens(Tail(names)) \o <<")">>

DomainOf(names) == IF names = <<>> THEN NoDomain ELSE ADomain(NestTokens(names))

\* the directory find_root was started in
StartDir == Resolve(cwd, root_ret.start)

\* the build-tree roots at or above the start directory that are not subdomains
TrueRoots == {d \in Prefixes(StartDir) : d \in fs_muddle /\ d \notin DOMAIN fs_sub}

\* the closest of them
TrueRoot == CHOOSE d \in TrueRoots : \A e \in TrueRoots : Len(e) <= Len(d)

\* the subdomain roots between the true root and the start directory
SubRoots == {d \in Prefixes(StartDir) : d \in DOMAIN fs_sub /\ Len(d) > Len(TrueRoot)}

\* <parent>/domains/<name>
UnderDomains(d) == Len(d) >= 2 /\ d[Len(d) - 1] = "domains"

\* the names of the subdomain roots, outermost first
RECURSIVE SubRootNames(_)
SubRootNames(n) ==
    IF n > Len(StartDir) THEN <<>>
    ELSE (IF SubSeq(StartDir, 1, n) \in SubRoots THEN <<StartDir[n]>> ELSE <<>>)
             \o SubRootNames(n + 1)

\* the start directory lies in k >= 0 nested subdomain roots, each a directory
\* <parent>/domains/<name>, beneath a build-tree root that is not a subdomain
InNestedDomains == TrueRoots # {} /\ \A d \in SubRoots : UnderDomains(d)

\* C5: from a start directory inside k nested subdomain roots beneath a true
\* root, find_root returns the true root and the names composed outermost
\* first, n1(n2(...nk...)); with k = 0 the domain is None.
C5_FindRootComposes ==
    (root_ret.kind # "none" /\ InNestedDomains) =>
        /\ root_ret.kind = "value"
        /\ SubRoots = {} => ~root_ret.domain.set
        /\ SubRoots # {} =>
               /\ root_ret.found
               /\ Resolve(cwd, root_ret.dir) = TrueRoot
               /\ root_ret.domain = DomainOf(SubRootNames(1))

\* What TLC finds when the start directory is given as an absolute path: the
\* true root is returned, for k = 0 as well, with the names composed as in C5.
FindRootComposesFromAbsolute ==
    (root_ret.kind # "none" /\ InNestedDomains /\ root_ret.start.abs) =>
        root_ret = RootFound(root_ret.start, AbsPath(TrueRoot), DomainOf(SubRootNames(1)))

\* C6: when no directory from the start directory up to '/' holds a .muddle,
\* find_root returns (None, None), for absolute and relative arguments alike.
C6_NoMarkerNone ==
    (root_ret.kind # "none" /\ Prefixes(StartDir) \cap fs_muddle = {}) =>
        root_ret = RootNotFound(root_ret.start)

\* What TLC finds of C6 when the start directory is given as an absolute path.
NoMarkerNoneFromAbsolute == root_ret.start.abs => C6_NoMarkerNone

\* the path find_root climbed, cut to its first n segments
ClimbedPath(n) ==
    LET ns == normpath(root_ret.start)
    IN  [abs |-> ns.abs, segs |-> SubSeq(ns.segs, 1, n)]

\* the paths below the returned root at which find_root met a subdomain, as
\* numbers of segments
MetSubdomain(n) ==
    /\ n > Len(root_ret.dir.segs)
    /\ n <= Len(normpath(root_ret.start).segs)
    /\ Resolve(cwd, ClimbedPath(n)) \in DOMAIN fs_sub

StoredName(n) == fs_sub[Resolve(cwd, ClimbedPath(n))]
DirectoryName(n) == Last(ClimbedPath(n).segs)

\* what the subdomains met contribute, outermost first: the names stored in
\* their sentinel files, or the last segments of their paths
RECURSIVE Contributions(_, _)
Contributions(n, stored) ==
    IF n > Len(normpath(root_ret.start).segs) THEN <<>>
    ELSE (IF ~MetSubdomain(n) THEN <<>>
          ELSE IF stored THEN <<StoredName(n)>>
          ELSE <<DirectoryName(n)>>) \o Contributions(n + 1, stored)

\* C7 as claimed: each subdomain root met contributes the name stored in its
\* sentinel file.
C7_NameFromSentinel ==
    (root_ret.kind = "value" /\ root_ret.found) =>
        root_ret.domain = DomainOf(Contributions(1, TRUE))

\* C7 (amended): each subdomain root met contributes the last segment of the
\* path at which find_root met it, whatever name mark_as_domain stored there.
C7_NameFromDirectory ==
    (root_ret.kind = "value" /\ root_ret.found) =>
        root_ret.domain = DomainOf(Contributions(1, FALSE))

C7_Witness ==
    /\ root_ret.kind = "value" /\ root_ret.found
    /\ root_ret.domain = ADomain(<<"a", "(", "b", ")">>)
    /\ \E n \in 1..MaxPath : MetSubdomain(n) /\ StoredName(n) # DirectoryName(n)

----------------------------------------------------------------------------
(* Claims about find_location_in_tree and find_local_packages *)

IsPrefix(s, u) == Len(s) <= Len(u) /\ SubSeq(u, 1, Len(s)) = s

NormDir == normpath(loc_dir)
NormRoot == normpath(loc_root)

\* root is the working directory, written "."
RootIsDot == NormRoot = RelPath(<<".">>)

\* dir names a directory below root: root/<segments>, which normpath writes
\* without the root when the root is "."
DirBelowRoot ==
    IF RootIsDot
    THEN ~NormDir.abs /\ NormDir # NormRoot /\ NormDir.segs[1] # ".."
    ELSE /\ NormDir.abs = NormRoot.abs
         /\ NormDir # NormRoot
         /\ IsPrefix(NormRoot.segs, NormDir.segs)
         /\ (NormRoot.segs = <<>> \/ NormRoot.segs[1] # "..")

\* the segments of dir below root
BelowRoot ==
    IF RootIsDot THEN NormDir.segs
    ELSE SubSeq(NormDir.segs, Len(NormRoot.segs) + 1, Len(NormDir.segs))

\* an absolute dir that is not root and not below an absolute root
DirOutsideRoot ==
    /\ NormDir.abs /\ NormRoot.abs
    /\ ~IsPrefix(NormRoot.segs, NormDir.segs)

OrNone(rest, n) == IF Len(rest) >= n THEN rest[n] ELSE None

\* the outcome the classification by first segment gives for ret
ClassifiedByFirstSegment(ret) ==
    IF NormDir = NormRoot THEN ret = RootTriple(NormRoot)
    ELSE IF DirOutsideRoot THEN ret = RetNone
    ELSE IF ~DirBelowRoot THEN TRUE
    ELSE LET rest == BelowRoot
         IN  IF rest[1] = "src" THEN ret.kind = "value" /\ ret.what = DirType_CheckOut
             ELSE IF rest[1] = "obj"
             THEN ret = Triple(DirType_Object, OrNone(rest, 2), OrNone(rest, 3))
             ELSE IF rest[1] = "install"
             THEN ret = Triple(DirType_Install, OrNone(rest, 2), None)
             ELSE IF rest[1] = "domains" THEN ret.kind = "value" /\ ret.what = DirType_Root
             ELSE ret = RetNone

\* C8: find_location_in_tree classifies dir by its first segment below root:
\* Root for dir == root, CheckOut for src, (Object, package, role) for obj,
\* (Install, name, None) for install, Root for domains, None for any other
\* first segment and for an absolute dir that is not beneath root.
C8_ClassifiesByFirstSegment ==
    loc_call = "find_location_in_tree" => ClassifiedByFirstSegment(loc_ret)

\* What TLC finds of C8 when root is not the working directory written ".".
ClassifiesBelowNamedRoot == ~RootIsDot => C8_ClassifiesByFirstSegment

\* C9: find_local_packages returns one rendered entry per package of the index
\* for a checkout c, the single entry p{role} or p for an object directory of
\* package p, and None for every other classification.
C9_LocalPackages ==
    LET tloc == find_location_in_tree(loc_dir, loc_root, loc_inv)
    IN  (loc_call = "find_local_packages" /\ tloc.kind # "diverges") =>
            IF tloc.kind = "value" /\ tloc.what = DirType_CheckOut /\ tloc.name # None
            THEN loc_ret = PkgList(RenderedAll(packages_for_checkout(tloc.name)))
            ELSE IF tloc.kind = "value" /\ tloc.what = DirType_Object /\ tloc.name # None
            THEN loc_ret = PkgList(<<Rendered(tloc.name, tloc.role)>>)
            ELSE loc_ret = RetNone

\* What TLC finds of C9 with the Object branch guarded against a missing
\* package name, as the CheckOut branch is.
LocalPackagesWhenGuarded ==
    (loc_call = "find_local_packages"
         /\ find_local_packages(loc_dir, loc_root, loc_inv)
                = find_local_packages_guarded(loc_dir, loc_root, loc_inv))
        => C9_LocalPackages

\* dir is root/src/s1/.../sn with n >= 1
DirBelowSrc == DirBelowRoot /\ Len(BelowRoot) >= 2 /\ BelowRoot[1] = "src"

\* s1 .. sn
BelowSrc == SubSeq(BelowRoot, 2, Len(BelowRoot))

\* sk names a known checkout whose registered path is s1/.../sj for a j <= k
RegisteredAt(k) ==
    /\ BelowSrc[k] \in DOMAIN loc_inv.checkouts
    /\ \E j \in 1..k : SubSeq(BelowSrc, 1, j) = loc_inv.checkouts[BelowSrc[k]]

\* the checkout C21 names: sk for the smallest such k, and s1 when there is
\* none or no index is given
NamedCheckout ==
    LET ks == {k \in 1..Len(BelowSrc) : loc_inv.given /\ RegisteredAt(k)}
    IN  IF ks = {} THEN BelowSrc[1]
        ELSE BelowSrc[CHOOSE k \in ks : \A m \in ks : k <= m]

\* C21: for dir = root/src/s1/.../sn and a checkout index, find_location_in_tree
\* returns (CheckOut, sk, None) for the smallest k such that sk is a known
\* checkout whose registered path is a prefix s1/.../sj, j <= k, of the path
\* below src; with no such k, or no index, it returns (CheckOut, s1, None).
C21_CheckoutFromIndex ==
    (loc_call = "find_location_in_tree" /\ DirBelowSrc) =>
        loc_ret = Triple(DirType_CheckOut, NamedCheckout, None)

\* What TLC finds of C21 when root is not the working directory written ".".
CheckoutFromIndexBelowNamedRoot == ~RootIsDot => C21_CheckoutFromIndex

\* a case of C21 the code gets right: b, registered at a/b, is named for
\* root/src/a/b although a is the first segment
CheckoutFromIndexReached ==
    /\ loc_call = "find_location_in_tree" /\ DirBelowSrc /\ ~RootIsDot
    /\ BelowSrc = <<"a", "b">>
    /\ loc_inv.given /\ "a" \notin DOMAIN loc_inv.checkouts
    /\ loc_ret = Triple(DirType_CheckOut, "b", None)

\* C22: find_location_in_tree returns, a triple or None, for every dir and
\* root, absolute or relative, dir beneath root or not; and so does
\* find_local_packages, which calls it.
C22_Terminates == loc_call # "none" => loc_ret.kind \in {"value", "None"}

\* What TLC finds of C22 for absolute dirs.
TerminatesFromAbsolute == NormDir.abs => C22_Terminates

----------------------------------------------------------------------------
(* Claims about HashFile and calc_file_hash *)

\* the writer has written exactly the content of the file that is read
WrittenSame == hf_w.data = hf_content

\* the reader has read its file to the end
ReadToEnd == hf_r.pos = Len(hf_r.data)

\* C10: once a write-mode HashFile has written a content, in whatever chunks,
\* its digest equals the digest of a read-mode HashFile that has read the same
\* content line by line to the end, and equals calc_file_hash of that file.
C10_RoundTrip ==
    WrittenSame =>
        /\ ReadToEnd => HashFile_hash(hf_w) = HashFile_hash(hf_r)
        /\ calc_ret # NoDigest => HashFile_hash(hf_w) = calc_ret

C10_Witness ==
    /\ hf_content = <<"x", "\n", "\n", "x">>
    /\ WrittenSame /\ ReadToEnd /\ calc_ret # NoDigest
    /\ HashFile_hash(hf_w) = HashFile_hash(hf_r)
    /\ HashFile_hash(hf_w) = calc_ret

----------------------------------------------------------------------------
(* Claims about one HashFile used in and against its mode *)

\* the last call was made on a HashFile opened with the given mode
CalledOn(ops, mode) == hu_op \in ops /\ hu_prev.mode = mode

\* the last call raised Error and left the file and the digest as they were
Refused ==
    /\ hu_raised = "Error"
    /\ hu.data = hu_prev.data
    /\ hu.sha = hu_prev.sha

\* C11: write() on a HashFile opened 'r', and readline() or iteration on one
\* opened 'w', raise Error and leave the underlying file and the digest
\* unchanged; a constructor called with a mode other than 'r' or 'w' raises
\* before it opens any file.
C11_RefusesOpposite ==
    /\ CalledOn({"write"}, "r") => Refused
    /\ CalledOn({"readline", "next", "__iter__"}, "w") => Refused
    /\ (hu_op # "none" /\ hu_mode \notin {"r", "w"}) =>
           /\ hu = NoHashFile
           /\ ~hu_opened
           /\ hu_op = "__init__" /\ hu_raised = "ValueError"

C11_Witness ==
    /\ CalledOn({"write"}, "r")
    /\ Refused
    /\ hu.sha # sha1_new

C11_WitnessRead ==
    /\ CalledOn({"next"}, "w")
    /\ Refused
    /\ hu.data # <<>>

C11_WitnessMode == hu_op = "__init__" /\ hu_mode = "a" /\ ~hu_opened

\* C12: after any sequence of successful readline/next or write calls, hash()
\* is the SHA-1 hex digest of the concatenation of exactly the texts returned
\* or written so far; hash() leaves the HashFile as it was, and later reads
\* and writes accumulate on top.
C12_HashOfTexts ==
    /\ HashFile_hash(hu) = sha1_hexdigest(hu_texts)
    /\ hu_op = "hash" => (hu_hash = sha1_hexdigest(hu_texts) /\ hu = hu_prev)

C12_Witness ==
    /\ hu_op = "next" /\ hu_raised = "no"
    /\ hu_hash \notin {NoDigest, sha1_hexdigest(sha1_new)}
    /\ hu_hash # HashFile_hash(hu)
    /\ HashFile_hash(hu) = sha1_hexdigest(hu_texts)

C12_WitnessWrite ==
    /\ hu_op = "hash" /\ hu.mode = "w"
    /\ Len(hu_texts) = MaxContent
    /\ hu_hash = sha1_hexdigest(hu_texts)

----------------------------------------------------------------------------
(* Claims about AptGetBuilder *)

\* the configured packages the status query reports not installed, in order
ReportedMissing == SelectSeq(apt_pkgs, LAMBDA p : ~already_installed(apt_db, p))

\* what C13 asks of one call of build_label
InstallsMissingOnce(ret) ==
    IF apt_tag = Tags_Built
    THEN /\ ret.queries = apt_pkgs
         /\ ret.installs = IF ReportedMissing # <<>>
                            THEN <<AptGetInstall \o ReportedMissing>>
                            ELSE <<>>
    ELSE ret.queries = <<>> /\ ret.installs = <<>>

\* C13: build_label for the Built tag queries each configured package and
\* runs the installer exactly once, with the packages reported not installed
\* in configured order, when there are any, and not at all otherwise; for any
\* other tag it queries nothing and installs nothing.
C13_InstallsMissingOnce == apt_call = "build_label" => InstallsMissingOnce(apt_ret)

\* the same holds of build_label in a utils module that defines LabelTag and
\* GiveUp, which muddled/utils.py does not
InstallsMissingOnceWhenNamesResolve ==
    InstallsMissingOnce(build_label_in(utils_names \cup {"LabelTag", "GiveUp"},
                                       apt_pkgs, apt_db, apt_tag, apt_rv))

----------------------------------------------------------------------------
(* Claims about run_cmd and get_cmd_data *)

\* the message names the command and its exit code
NamesCommandAndCode(msg) ==
    /\ ContainsSub(msg, <<"'">> \o cmd_cmd \o <<"'">>)
    /\ EndsWith(msg, <<" ">> \o FormatD(cmd_exit.code))

\* C17: run_cmd returns the exit code when it is 0 or allowFailure is true,
\* and otherwise raises Error when isSystem is true and Failure when it is
\* false, with a message that names the command and the exit code.
C17_RunCmdSignals ==
    cmd_call = "run_cmd" =>
        IF cmd_exit.code = 0 \/ cmd_flags.allowFailure
        THEN cmd_ret = Returned(cmd_exit.code)
        ELSE /\ cmd_ret.kind = (IF cmd_flags.isSystem THEN "Error" ELSE "Failure")
             /\ NamesCommandAndCode(cmd_ret.msg)

C17_Witness ==
    /\ cmd_call = "run_cmd"
    /\ cmd_exit.code = 127 /\ ~cmd_flags.allowFailure /\ ~cmd_flags.isSystem
    /\ cmd_ret.kind = "Failure"
    /\ NamesCommandAndCode(cmd_ret.msg)

\* C18: get_cmd_data with fail_nonzero true and a non-zero return code raises
\* Error if isSystem is true and Failure otherwise, naming the command and its
\* exit code; otherwise it returns (returncode, stdout, stderr), with stderr
\* None when fold_stderr is true.
C18_GetCmdDataSignals ==
    cmd_call = "get_cmd_data" =>
        IF cmd_flags.fail_nonzero /\ cmd_exit.code # 0
        THEN /\ cmd_ret.kind = (IF cmd_flags.isSystem THEN "Error" ELSE "Failure")
             /\ NamesCommandAndCode(cmd_ret.msg)
        ELSE /\ cmd_ret.kind = "return"
             /\ cmd_ret.value[1] = cmd_exit.code
             /\ cmd_flags.fold_stderr => cmd_ret.value[3] = None
             /\ ~cmd_flags.fold_stderr =>
                    cmd_ret.value = <<cmd_exit.code, cmd_exit.out, cmd_exit.err>>

\* the part of C18 about returning holds
GetCmdDataReturns ==
    (cmd_call = "get_cmd_data" /\ ~(cmd_flags.fail_nonzero /\ cmd_exit.code # 0)) =>
        /\ cmd_ret.kind = "return"
        /\ cmd_ret.value[1] = cmd_exit.code
        /\ cmd_flags.fold_stderr => cmd_ret.value[3] = None

----------------------------------------------------------------------------
(* Claims about the Bazaar handler *)

\* the handler of the last operation, its commands, and its checkout directory
OpSelf == Bazaar(bzr_op.h)
OpCmds == bzr_op.cmds
OpCoPlace == CoPathOf(bzr_op.h).segs

Fatal == {"check_out", "pull", "commit", "push"}

\* C14: update() returns normally whatever the exit code of its command, while
\* check_out(), pull(), commit() and push() raise Failure on a non-zero exit
\* and run no later command; must_update_to_commit() is false, and commit()
\* succeeds on a zero exit whether or not update() was called before it.
C14_OnlyUpdateTolerates ==
    /\ (bzr_op.name = "update" /\ OpCmds # <<>>) => bzr_op.raised = "no"
    /\ bzr_op.name \in Fatal =>
           \A i \in 1..Len(OpCmds) :
               OpCmds[i].rv # 0 => (bzr_op.raised = "Failure" /\ i = Len(OpCmds))
    /\ bzr_op.name = "must_update_to_commit" => bzr_op.value = FALSE
    /\ (bzr_op.name = "commit" /\ OpCmds # <<>> /\ OpCmds[1].rv = 0) =>
           bzr_op.raised = "no"

C14_Witness ==
    /\ bzr_op.name = "update"
    /\ OpCmds # <<>> /\ OpCmds[1].rv = 127
    /\ bzr_op.raised = "no"

C14_WitnessFatal ==
    /\ bzr_op.name = "pull"
    /\ OpCmds # <<>> /\ OpCmds[1].rv = 1
    /\ bzr_op.raised = "Failure"

C14_WitnessCommit ==
    /\ bzr_op.name = "commit" /\ bzr_op.raised = "no" /\ OpCmds # <<>>
    /\ ~bzr_updated[bzr_op.h]

C14_WitnessCommitAfterUpdate ==
    /\ bzr_op.name = "commit" /\ bzr_op.raised = "no" /\ OpCmds # <<>>
    /\ bzr_updated[bzr_op.h]

\* the words the shell makes of a command line
Words(cmd) == SplitFields(cmd)

Pinned(revision) == revision \notin {NoRevision, HEAD}

\* C15: the command check_out builds carries no '-r' flag and no word HEAD
\* when the revision is None or 'HEAD', and '-r r' for every other revision r.
C15_RevisionFlag ==
    (bzr_op.name = "check_out" /\ OpCmds # <<>>) =>
        LET cmd == OpCmds[1].cmd
            revision == bzr_rev[bzr_op.h]
        IN  IF Pinned(revision)
            THEN /\ ContainsSub(cmd, <<"-", "r", " ">> \o revision)
                 /\ SubSeq(Words(cmd), 3, 4) = <<<<"-", "r">>, revision>>
            ELSE \A i \in 1..Len(Words(cmd)) : Words(cmd)[i] \notin {<<"-", "r">>, HEAD}

C15_Witness ==
    /\ bzr_op.name = "check_out" /\ OpCmds # <<>>
    /\ bzr_rev[bzr_op.h] = HEAD
    /\ Words(OpCmds[1].cmd) = <<<<"b", "z", "r">>, <<"c", "o">>, <<"u">>, <<"a">>>>

C15_WitnessPinned ==
    /\ bzr_op.name = "check_out" /\ OpCmds # <<>>
    /\ bzr_rev[bzr_op.h] = <<"1">>
    /\ Words(OpCmds[1].cmd) = <<<<"b", "z", "r">>, <<"c", "o">>, <<"-", "r">>, <<"1">>, <<"u">>, <<"b">>>>

\* C16: whatever the working directory of the process was before the call,
\* every command of an operation runs in the checkout directory its handler is
\* bound to.
C16_RunsInCheckout ==
    bzr_op.h \in Handlers =>
        \A i \in 1..Len(OpCmds) : OpCmds[i].cwd = OpCoPlace

C16_Witness ==
    /\ bzr_op.h = "h2" /\ bzr_op.name = "commit"
    /\ bzr_op.from = CoPathOf("h1").segs
    /\ OpCmds # <<>> /\ OpCmds[1].cwd = CoPathOf("h2").segs

C16_WitnessCheckOut ==
    /\ bzr_op.h = "h1" /\ bzr_op.name = "check_out"
    /\ bzr_op.from = Elsewhere
    /\ Len(OpCmds) = 2 /\ OpCmds[2].cwd = CoPathOf("h1").segs

\* C20: check_out first makes sure its checkout path is a directory, creating
\* it if absent and raising Error with no command run if something else is
\* there; then it runs the checkout command; it runs 'bzr unbind' only after
\* the checkout command exited with 0, and raises Failure without unbinding if
\* that command exited non-zero.
C20_CheckOutOrder ==
    bzr_op.name = "check_out" =>
        /\ bzr_op.was = "file" => (bzr_op.raised = "Error" /\ OpCmds = <<>>)
        /\ bzr_op.was # "file" =>
               /\ bzr_fs[OpCoPlace] = "dir"
               /\ Len(OpCmds) >= 1
               /\ OpCmds[1].cmd = bzr_co(OpSelf)
        /\ (OpCmds # <<>> /\ OpCmds[1].rv = 0) =>
               (Len(OpCmds) = 2 /\ OpCmds[2].cmd = bzr_unbind)
        /\ (OpCmds # <<>> /\ OpCmds[1].rv # 0) =>
               (Len(OpCmds) = 1 /\ bzr_op.raised = "Failure")

C20_Witness ==
    /\ bzr_op.name = "check_out" /\ bzr_op.was = "absent"
    /\ bzr_fs[OpCoPlace] = "dir"
    /\ Len(OpCmds) = 2 /\ OpCmds[2].cmd = bzr_unbind /\ bzr_op.raised = "no"

C20_WitnessNotADirectory ==
    /\ bzr_op.name = "check_out" /\ bzr_op.was = "file"
    /\ bzr_op.raised = "Error" /\ OpCmds = <<>>

C20_WitnessFailure ==
    /\ bzr_op.name = "check_out" /\ Len(OpCmds) = 1 /\ bzr_op.raised = "Failure"

----------------------------------------------------------------------------
(* Claims about the build run *)

\* C19: in a build run, for any Ruleset and any targets, the Builder of each
\* label is invoked at most once, however many dependents need the label, and
\* only after every prerequisite of its Rule has reached its tag, whichever
\* way independent branches interleave.
C19_AtMostOnceAfterPrerequisites ==
    \A l \in Labels :
        /\ bld_count[l] <= 1
        /\ l \notin bld_early
        /\ l \in bld_running => bld_rules[l] \subseteq bld_done

\* label 1 is needed by two dependents, which are built side by side after it
C19_Witness ==
    /\ 1 \in bld_rules[2] /\ 1 \in bld_rules[3]
    /\ bld_running = {2, 3}
    /\ 1 \in bld_done /\ bld_count[1] = 1

====
